---- MODULE Spec2Model ----
(***************************************************************************)
(* A model of systemtools/linksame.py: the engine that replaces identical  *)
(* files of a directory tree with links to one surviving file, and of the  *)
(* sysutils classes CheckTcpConn and SystemStats (at the end).             *)
(*                                                                         *)
(* A path is the sequence of its components below "/", a component is the  *)
(* sequence of its characters; the path string of <<r, d, a>> is "/r/d/a". *)
(* The filesystem maps each path to a directory entry: nothing, a regular  *)
(* file (an inode number and the inode's bytes) or a symlink (its stored   *)
(* target text).  Directories are fixed; the program never changes one.    *)
(***************************************************************************)
EXTENDS Integers, Sequences, FiniteSets, TLC

VARIABLES
    fs,             \* the filesystem: path -> directory entry
    opts,           \* the arguments of this invocation
    walk,           \* the order in which os.walk yields the tree's files
    pc,             \* where the main thread is
    size_file_map,  \* link_same_files: size -> list of paths, in scan order
    todo,           \* sizes the dispatch loop has not reached yet
    ex,             \* executor id -> state of that thread's check_and_link
    statsq,         \* the queue the workers report on
    wait_count,     \* results the main thread still waits for
    link_count,     \* the totals the summary prints
    size_saved,
    faults,         \* system calls that failed during this invocation
    run,            \* the number of this invocation on the tree
    fs0,            \* history: the filesystem when this invocation started
    hashed,         \* history: the paths _hash_file was called on
    prev,           \* history: what the invocation before this one did
    err,            \* what the engine returned to main: None or an error
    time,           \* sysutils: what time.time() returns, in clock ticks
    chk,            \* sysutils: a CheckTcpConn instance and its caller
    stats           \* sysutils: a SystemStats instance and its caller

vars == <<fs, opts, walk, pc, size_file_map, todo, ex, statsq, wait_count,
          link_count, size_saved, faults, run, fs0, hashed, prev, err,
          time, chk, stats>>

-----------------------------------------------------------------------------
(* Names and paths of the modelled tree.                                   *)

nA  == <<"a">>
nB  == <<"b">>
nBB == <<"b", "b">>
nD  == <<"d">>
nE  == <<"e">>
nR  == <<"r">>
nX  == <<"x">>
nUU == <<"u", "u", "u">>

ROOT == <<nR>>
pA   == <<nR, nA>>
pBB  == <<nR, nBB>>
pDA  == <<nR, nD, nA>>
pEB  == <<nR, nE, nB>>
pXU  == <<nX, nUU>>

TreePaths == {pA, pBB, pDA, pEB}
AllPaths  == TreePaths \cup {pXU}
Dirs      == {ROOT, <<nR, nD>>, <<nR, nE>>, <<nX>>}

-----------------------------------------------------------------------------
(* os.path on these paths.                                                 *)

basename(p) == p[Len(p)]
dirname(p)  == SubSeq(p, 1, Len(p) - 1)

RECURSIVE PathLen(_)
PathLen(p) == IF p = <<>> THEN 0 ELSE 1 + Len(Head(p)) + PathLen(Tail(p))

RECURSIVE CommonLen(_, _)
CommonLen(p, q) ==
    IF p = <<>> \/ q = <<>> \/ Head(p) # Head(q) THEN 0
    ELSE 1 + CommonLen(Tail(p), Tail(q))

\* A relative path text: `ups` times "..", then the components `comps`.
\* An absolute one has abs set and no "..".
RelText(u, c) == [abs |-> FALSE, ups |-> u, comps |-> c]
AbsText(p)    == [abs |-> TRUE, ups |-> 0, comps |-> p]
Dot           == RelText(0, <<>>)

\* os.path.relpath(path, start): the way to `path` when standing in `start`.
relpath(path, start) ==
    LET c == CommonLen(path, start)
    IN  RelText(Len(start) - c, SubSeq(path, c + 1, Len(path)))

\* os.path.join(rp, name) for a relative rp.
join(rp, name) == RelText(rp.ups, Append(rp.comps, name))

\* The path a text names when read in directory `dir` (".." at "/" stays "/").
Resolve(dir, t) ==
    IF t.abs THEN t.comps
    ELSE SubSeq(dir, 1, IF t.ups >= Len(dir) THEN 0 ELSE Len(dir) - t.ups) \o t.comps

-----------------------------------------------------------------------------
(* Directory entries and the system calls the program makes.               *)

NoEnt       == [kind |-> "none", ino |-> 0, data |-> "", target |-> Dot]
FileEnt(i, d) == [kind |-> "file", ino |-> i, data |-> d, target |-> Dot]
LinkEnt(t)  == [kind |-> "link", ino |-> 0, data |-> "", target |-> t]

lstat(f, p) == IF p \in DOMAIN f THEN f[p] ELSE NoEnt

\* stat follows symlinks; a chain longer than the tree has paths is a loop.
RECURSIVE statN(_, _, _)
statN(f, p, n) ==
    LET e == lstat(f, p)
    IN  IF e.kind # "link" THEN e
        ELSE IF n = 0 THEN NoEnt
        ELSE statN(f, Resolve(dirname(p), e.target), n - 1)

stat(f, p) == statN(f, p, Cardinality(AllPaths))

isdir(p)       == p \in Dirs
isfile(f, p)   == stat(f, p).kind = "file"
islink(f, p)   == lstat(f, p).kind = "link"
exists(f, p)   == stat(f, p).kind = "file"
getsize(f, p)  == Len(stat(f, p).data)
\* os.path.samefile raises OSError when either stat fails.
samefileRaises(f, a, b) == ~exists(f, a) \/ ~exists(f, b)
samefile(f, a, b) == stat(f, a).ino = stat(f, b).ino

RECURSIVE SetMax(_)
SetMax(S) == IF S = {} THEN 0
             ELSE LET x == CHOOSE y \in S : TRUE
                      m == SetMax(S \ {x})
                  IN  IF x > m THEN x ELSE m

NewIno(f) == 1 + SetMax({f[p].ino : p \in DOMAIN f})

unlink(f, p)        == [f EXCEPT ![p] = NoEnt]
\* link(2) does not follow a symlink at src: dst becomes a second name of
\* whatever src is, a file's inode or the symlink itself.
link(f, src, dst)   == [f EXCEPT ![dst] = lstat(f, src)]
symlink(f, t, dst)  == [f EXCEPT ![dst] = LinkEnt(t)]
copy2(f, src, dst)  == [f EXCEPT ![dst] = FileEnt(NewIno(f), stat(f, src).data)]

-----------------------------------------------------------------------------
(* The pure parts of linksame.py.                                          *)

NoPattern == <<>>

\* fnmatch.fnmatch(fname, pattern) for patterns of literals, "?" and "*".
RECURSIVE fnmatch(_, _)
fnmatch(fname, pattern) ==
    IF pattern = <<>> THEN fname = <<>>
    ELSE IF Head(pattern) = "*"
         THEN fnmatch(fname, Tail(pattern))
              \/ (fname # <<>> /\ fnmatch(Tail(fname), pattern))
    ELSE IF fname = <<>> THEN FALSE
    ELSE (Head(pattern) = "?" \/ Head(pattern) = Head(fname))
         /\ fnmatch(Tail(fname), Tail(pattern))

\* _hash_file: the digest of the bytes read; SHA-1 collisions are not modelled.
Digest(data) == <<"sha1", data>>
hash_file(f, p) == Digest(stat(f, p).data)

\* A slip in fkey: the path length compared before the filename length.
fkey_PathFirst(name) == <<PathLen(name), Len(basename(name))>>

\* _link_files.fkey, and Python's order on the pairs it returns.
fkey(name) == <<Len(basename(name)), PathLen(name)>>
KeyLess(k1, k2) == k1[1] < k2[1] \/ (k1[1] = k2[1] /\ k1[2] < k2[2])

\* list.sort(key=fkey) is stable: members with equal keys keep their order.
RECURSIVE InsertByKey(_, _)
InsertByKey(x, sorted) ==
    IF sorted = <<>> THEN <<x>>
    ELSE IF KeyLess(fkey(x), fkey(sorted[Len(sorted)]))
         THEN Append(InsertByKey(x, SubSeq(sorted, 1, Len(sorted) - 1)),
                     sorted[Len(sorted)])
    ELSE Append(sorted, x)

RECURSIVE SortFiles(_)
SortFiles(files) ==
    IF files = <<>> THEN <<>>
    ELSE InsertByKey(files[Len(files)], SortFiles(SubSeq(files, 1, Len(files) - 1)))

\* files.sort(key=fkey); base_file = files.pop()
Survivor(files)  == SortFiles(files)[Len(files)]
Replaced(files)  == SubSeq(SortFiles(files), 1, Len(files) - 1)

\* The text _link_files stores in the symlink it creates at f.
SymlinkSource(absolute, base_file, f) ==
    IF absolute THEN AbsText(base_file)
    ELSE LET rp == relpath(dirname(f), dirname(base_file))
         IN  IF rp = Dot THEN RelText(0, <<basename(base_file)>>)
             ELSE join(rp, basename(base_file))

\* A slip in the scanner: the test for an empty file left out.
ScanKeeps_KeepsEmpty(f, pattern, p) ==
    /\ isfile(f, p) /\ ~islink(f, p)
    /\ (pattern = NoPattern \/ fnmatch(basename(p), pattern))

\* The scanner's test on one directory entry (link_same_files, lines 75-81).
ScanKeeps(f, pattern, p) ==
    /\ isfile(f, p) /\ ~islink(f, p)
    /\ getsize(f, p) # 0
    /\ (pattern = NoPattern \/ fnmatch(basename(p), pattern))

\* The entries os.walk(root_dir) yields, in walk order.
Walked(f, order, root_dir) ==
    SelectSeq(order, LAMBDA p : lstat(f, p).kind # "none"
                                /\ Len(p) > Len(root_dir)
                                /\ SubSeq(p, 1, Len(root_dir)) = root_dir)

Range(s) == {s[i] : i \in 1..Len(s)}

\* A slip in the walk: one list object stored under every size.
SizeFileMap_OneList(f, order, root_dir, pattern) ==
    LET kept  == SelectSeq(Walked(f, order, root_dir),
                           LAMBDA p : ScanKeeps(f, pattern, p))
        sizes == {getsize(f, p) : p \in Range(kept)}
    IN  [sz \in sizes |-> kept]

\* size_file_map after the walk of link_same_files.
SizeFileMap(f, order, root_dir, pattern) ==
    LET kept  == SelectSeq(Walked(f, order, root_dir),
                           LAMBDA p : ScanKeeps(f, pattern, p))
        sizes == {getsize(f, p) : p \in Range(kept)}
    IN  [sz \in sizes |-> SelectSeq(kept, LAMBDA p : getsize(f, p) = sz)]

\* _check_same: the lists of two or more paths with one digest.
CheckSame(f, filepaths) ==
    LET digests == {hash_file(f, p) : p \in Range(filepaths)}
        of(d)   == SelectSeq(filepaths, LAMBDA p : hash_file(f, p) = d)
    IN  {of(d) : d \in {x \in digests : Len(of(x)) > 1}}

\* The list `same` of link_same_update (lines 143-155).
UpdateSame(f, order, o) ==
    LET hit(p) == /\ isfile(f, p) /\ ~islink(f, p)
                  /\ getsize(f, p) = getsize(f, o.update_file)
                  /\ (o.pattern = NoPattern \/ fnmatch(basename(p), o.pattern))
                  /\ hash_file(f, p) = hash_file(f, o.update_file)
    IN  <<o.update_file>> \o SelectSeq(Walked(f, order, o.root_dir), hit)

\* One pass of the loop body of _link_files over member m, the system calls
\* succeeding or failing as `env` says: the filesystem after it, whether the
\* member is counted, what was done, the symlink text used, and the system
\* calls made on the member in order (a failed one marked so).
Outcome(f, n, how, src, calls) ==
    [fs |-> f, n |-> n, how |-> how, src |-> src, calls |-> calls]

\* A slip in the loop body: the same-inode test of line 214 left out.
LinkOne_NoSameCheck(f, o, base_file, m, env) ==
    IF ~o.link THEN Outcome(f, 1, "dry", Dot, <<>>)
    ELSE IF ~env.unlink THEN Outcome(f, 0, "unlink_failed", Dot, <<"unlink failed">>)
    ELSE LET f1     == unlink(f, m)
             source == SymlinkSource(o.absolute, base_file, m)
             tried  == IF o.symlink THEN <<"unlink">>
                       ELSE <<"unlink", "link failed">>
         IN  IF ~o.symlink /\ env.link
             THEN Outcome(link(f1, base_file, m), 1, "hardlink", Dot,
                          <<"unlink", "link">>)
             ELSE IF env.symlink
             THEN Outcome(symlink(f1, source, m), 1, "symlink", source,
                          tried \o <<"symlink">>)
             ELSE Outcome(copy2(f1, base_file, m), 0, "restored", source,
                          tried \o <<"symlink failed", "copy2">>)

\* A slip in the loop body: the dry-run branch of lines 219-225 left out.
LinkOne_NoDryRun(f, o, base_file, m, env) ==
    IF samefile(f, base_file, m) THEN Outcome(f, 0, "same", Dot, <<>>)
    ELSE IF ~env.unlink THEN Outcome(f, 0, "unlink_failed", Dot, <<"unlink failed">>)
    ELSE LET f1     == unlink(f, m)
             source == SymlinkSource(o.absolute, base_file, m)
             tried  == IF o.symlink THEN <<"unlink">>
                       ELSE <<"unlink", "link failed">>
         IN  IF ~o.symlink /\ env.link
             THEN Outcome(link(f1, base_file, m), 1, "hardlink", Dot,
                          <<"unlink", "link">>)
             ELSE IF env.symlink
             THEN Outcome(symlink(f1, source, m), 1, "symlink", source,
                          tried \o <<"symlink">>)
             ELSE Outcome(copy2(f1, base_file, m), 0, "restored", source,
                          tried \o <<"symlink failed", "copy2">>)

\* A slip in the loop body: a member whose unlink failed is counted.
LinkOne_CountsFailedUnlink(f, o, base_file, m, env) ==
    IF samefile(f, base_file, m) THEN Outcome(f, 0, "same", Dot, <<>>)
    ELSE IF ~o.link THEN Outcome(f, 1, "dry", Dot, <<>>)
    ELSE IF ~env.unlink THEN Outcome(f, 1, "unlink_failed", Dot, <<"unlink failed">>)
    ELSE LET f1     == unlink(f, m)
             source == SymlinkSource(o.absolute, base_file, m)
             tried  == IF o.symlink THEN <<"unlink">>
                       ELSE <<"unlink", "link failed">>
         IN  IF ~o.symlink /\ env.link
             THEN Outcome(link(f1, base_file, m), 1, "hardlink", Dot,
                          <<"unlink", "link">>)
             ELSE IF env.symlink
             THEN Outcome(symlink(f1, source, m), 1, "symlink", source,
                          tried \o <<"symlink">>)
             ELSE Outcome(copy2(f1, base_file, m), 0, "restored", source,
                          tried \o <<"symlink failed", "copy2">>)

\* A slip in the loop body: the hardlink is tried in symlink-only mode too.
LinkOne_HardlinkAlways(f, o, base_file, m, env) ==
    IF samefile(f, base_file, m) THEN Outcome(f, 0, "same", Dot, <<>>)
    ELSE IF ~o.link THEN Outcome(f, 1, "dry", Dot, <<>>)
    ELSE IF ~env.unlink THEN Outcome(f, 0, "unlink_failed", Dot, <<"unlink failed">>)
    ELSE LET f1     == unlink(f, m)
             source == SymlinkSource(o.absolute, base_file, m)
             tried  == <<"unlink", "link failed">>
         IN  IF env.link
             THEN Outcome(link(f1, base_file, m), 1, "hardlink", Dot,
                          <<"unlink", "link">>)
             ELSE IF env.symlink
             THEN Outcome(symlink(f1, source, m), 1, "symlink", source,
                          tried \o <<"symlink">>)
             ELSE Outcome(copy2(f1, base_file, m), 0, "restored", source,
                          tried \o <<"symlink failed", "copy2">>)

LinkOne(f, o, base_file, m, env) ==
    IF samefile(f, base_file, m) THEN Outcome(f, 0, "same", Dot, <<>>)
    ELSE IF ~o.link THEN Outcome(f, 1, "dry", Dot, <<>>)
    ELSE IF ~env.unlink THEN Outcome(f, 0, "unlink_failed", Dot, <<"unlink failed">>)
    ELSE LET f1     == unlink(f, m)
             source == SymlinkSource(o.absolute, base_file, m)
             tried  == IF o.symlink THEN <<"unlink">>
                       ELSE <<"unlink", "link failed">>
         IN  IF ~o.symlink /\ env.link
             THEN Outcome(link(f1, base_file, m), 1, "hardlink", Dot,
                          <<"unlink", "link">>)
             ELSE IF env.symlink
             THEN Outcome(symlink(f1, source, m), 1, "symlink", source,
                          tried \o <<"symlink">>)
             ELSE Outcome(copy2(f1, base_file, m), 0, "restored", source,
                          tried \o <<"symlink failed", "copy2">>)

Envs  == [unlink : BOOLEAN, link : BOOLEAN, symlink : BOOLEAN]
AllOk == [unlink |-> TRUE, link |-> TRUE, symlink |-> TRUE]

-----------------------------------------------------------------------------
(* Bounds of the model.                                                    *)

\* Invocations in a row on one tree.
MaxRuns == 2

\* Members whose system calls fail, plus files whose hashing fails, during
\* one invocation.
MaxFaults == 1

\* The bytes a file may hold at the start; Empty is the zero-length file.
Empty    == ""
Contents == {"hello", "world", "dup"}

\* What else /r/d/a may be at the start: a second name of /r/a's inode, or
\* a symlink to /r/a.
HardOfA == "hardlink of /r/a"
SymToA  == "symlink ../a"

Kinds(p) == Contents \cup {Empty} \cup (IF p = pDA THEN {HardOfA, SymToA} ELSE {})

\* Filename patterns tried (-p); NoPattern is no pattern.
Patterns == {NoPattern, <<"b", "*">>}

\* Orders in which os.walk lists the tree: top-down, entries ascending or
\* descending within each directory.
WalkOrders == {<<pA, pBB, pDA, pEB>>, <<pBB, pA, pEB, pDA>>}

\* The files -u may name: one outside the tree, two inside.
UpdateFiles == {pXU, pA, pDA}

\* What -u may name that is no file: nothing, a directory, a path that
\* does not exist.
pNone == <<nX, nA>>
BadUpdateFiles == {<<>>, <<nR, nD>>, pNone}

\* Filename prefixes tried by linkidentical (-p).
Prefixes == {NoPattern, <<"b">>}

\* The roots tried: the tree, a regular file, a path that does not exist.
Roots == {ROOT, pA, pNone}

-----------------------------------------------------------------------------
(* The threads.  Executor 0 is the main thread running _link_files in      *)
(* update mode; executor sz is the worker thread of the bucket of size sz. *)

\* What an engine returns to main: None, or the error main prints.
None          == "None"
NotADirectory == "is not a directory"
NotSpecified  == "Update file not specified"
NotAFile      == "is not a file"
IsEmpty       == "is empty"

\* sysutils is not used by linksame: no instance of its classes exists.
NotConstructed == [pc |-> "new"]

Main    == 0
Workers == {Len(d) : d \in Contents}
ExIds   == {Main} \cup Workers

IdleEx == [pc |-> "idle", filepaths |-> <<>>, lists |-> {}, base_file |-> <<>>,
           base_size |-> 0, files |-> <<>>, given |-> <<>>, i |-> 0,
           link_count |-> 0, size_saved |-> 0, links |-> 0, saved |-> 0,
           did |-> <<>>, raised_on |-> <<>>]

NoPrev == [run |-> 0, link |-> FALSE, link_count |-> 0, size_saved |-> 0,
           hows |-> {}]

RECURSIVE SetMin(_)
SetMin(S) == LET x == CHOOSE y \in S : TRUE
             IN  IF S = {x} THEN x
                 ELSE LET m == SetMin(S \ {x}) IN IF x < m THEN x ELSE m

Options(mode, roots, update_files, patterns) ==
    [mode : {mode}, root_dir : roots, update_file : update_files,
     pattern : patterns, link : BOOLEAN, symlink : BOOLEAN, absolute : BOOLEAN]

Ino0(p) == CHOOSE i \in 1..5 : <<pA, pBB, pDA, pEB, pXU>>[i] = p

InitFs(kind) ==
    [p \in AllPaths |->
        IF p \notin DOMAIN kind THEN NoEnt
        ELSE IF kind[p] = HardOfA THEN FileEnt(Ino0(pA), kind[pA])
        ELSE IF kind[p] = SymToA THEN LinkEnt(RelText(1, <<nA>>))
        ELSE FileEnt(Ino0(p), kind[p])]

Trees == {InitFs(kind) : kind \in {k \in [TreePaths -> UNION {Kinds(p) : p \in TreePaths}] :
                                     \A p \in TreePaths : k[p] \in Kinds(p)}}

\* "hello" and "world" differ in nothing but their bytes, so a filesystem and
\* the one with the two swapped behave alike: of each such pair the one whose
\* first 5-byte file holds "hello" is kept.
FirstIsHello(f) ==
    LET five == SelectSeq(<<pXU, pA, pBB, pDA, pEB>>,
                          LAMBDA p : lstat(f, p).kind = "file"
                                     /\ Len(lstat(f, p).data) = 5)
    IN  IF five = <<>> THEN TRUE ELSE lstat(f, five[1]).data = "hello"

InitRest ==
    /\ walk \in WalkOrders
    /\ pc = "start"
    /\ size_file_map = <<>>
    /\ todo = {}
    /\ ex = [w \in ExIds |-> IdleEx]
    /\ statsq = <<>>
    /\ wait_count = 0
    /\ link_count = 0
    /\ size_saved = 0
    /\ faults = 0
    /\ run = 1
    /\ fs0 = fs
    /\ hashed = {}
    /\ prev = NoPrev
    /\ err = None
    /\ time = 0
    /\ chk = NotConstructed
    /\ stats = NotConstructed

\* linksame ROOT [-w] [-s] [-a] [-p PATTERN]
Init ==
    /\ fs \in {t \in Trees : FirstIsHello(t)}
    /\ opts \in Options("full", {ROOT}, {<<>>}, Patterns)
    /\ InitRest

\* linksame ROOT -u FILE [-w] [-s] [-a] [-p PATTERN]; FILE outside the tree
\* holds "hello" or "dup".
InitUpdate ==
    /\ opts \in Options("update", {ROOT}, UpdateFiles, Patterns)
    /\ \E t \in Trees :
          \/ opts.update_file # pXU /\ fs = t
          \/ opts.update_file = pXU
             /\ \E d \in {"hello", "dup"} :
                   fs = [t EXCEPT ![pXU] = FileEnt(Ino0(pXU), d)]
    /\ FirstIsHello(fs)
    /\ InitRest

-----------------------------------------------------------------------------
(* link_same_files: the main thread.                                       *)

\* Lines 61-82: the root check and the walk that fills size_file_map.
Scan ==
    /\ pc = "start" /\ opts.mode = "full"
    /\ IF ~isdir(opts.root_dir)
       THEN /\ pc' = "error"
            /\ err' = NotADirectory
            /\ UNCHANGED <<size_file_map, todo>>
       ELSE /\ size_file_map' = SizeFileMap(fs, walk, opts.root_dir, opts.pattern)
            /\ todo' = DOMAIN size_file_map'
            /\ pc' = "dispatch"
            /\ err' = err
    /\ UNCHANGED <<fs, opts, walk, ex, statsq, wait_count, link_count,
                   size_saved, faults, run, fs0, hashed, prev,
                   time, chk, stats>>

\* A slip in the loop: the test for a bucket of one file left out.
Dispatch_NoSkip ==
    /\ pc = "dispatch" /\ todo # {}
    /\ LET sz == SetMin(todo)
           same_size_files == size_file_map[sz]
       IN  /\ todo' = todo \ {sz}
           /\ wait_count' = wait_count + 1
           /\ ex' = [ex EXCEPT ![sz] =
                       [IdleEx EXCEPT !.pc = "check",
                                      !.filepaths = same_size_files]]
    /\ UNCHANGED <<fs, opts, walk, pc, size_file_map, statsq, link_count,
                   size_saved, faults, run, fs0, hashed, prev, err,
                   time, chk, stats>>

\* Lines 98-104: one pass of the loop that starts a thread per bucket of two
\* or more files (a dict of small ints is iterated in ascending order).
Dispatch ==
    /\ pc = "dispatch" /\ todo # {}
    /\ LET sz == SetMin(todo)
           same_size_files == size_file_map[sz]
       IN  /\ todo' = todo \ {sz}
           /\ IF Len(same_size_files) < 2
              THEN UNCHANGED <<wait_count, ex>>
              ELSE /\ wait_count' = wait_count + 1
                   /\ ex' = [ex EXCEPT ![sz] =
                               [IdleEx EXCEPT !.pc = "check",
                                              !.filepaths = same_size_files]]
    /\ UNCHANGED <<fs, opts, walk, pc, size_file_map, statsq, link_count,
                   size_saved, faults, run, fs0, hashed, prev, err,
                   time, chk, stats>>

\* Lines 106-107: the loop is over, the wait begins.
Dispatched ==
    /\ pc = "dispatch" /\ todo = {}
    /\ pc' = "wait"
    /\ UNCHANGED <<fs, opts, walk, size_file_map, todo, ex, statsq, wait_count,
                   link_count, size_saved, faults, run, fs0, hashed, prev, err,
                   time, chk, stats>>

\* Lines 108-112: statsq.get() returns one worker's result.
Collect ==
    /\ pc = "wait" /\ wait_count > 0 /\ statsq # <<>>
    /\ statsq' = Tail(statsq)
    /\ wait_count' = wait_count - 1
    /\ link_count' = link_count + Head(statsq)[1]
    /\ size_saved' = size_saved + Head(statsq)[2]
    /\ UNCHANGED <<fs, opts, walk, pc, size_file_map, todo, ex, faults, run, fs0,
                   hashed, prev, err,
                   time, chk, stats>>

\* A slip in the wait: the summary printed without counting the results.
Summary_NoWait ==
    /\ pc = "wait"
    /\ pc' = "done"
    /\ UNCHANGED <<fs, opts, walk, size_file_map, todo, ex, statsq, wait_count,
                   link_count, size_saved, faults, run, fs0, hashed, prev, err,
                   time, chk, stats>>

\* Lines 114-121: the summary; link_same_files returns None and main 0.
Summary ==
    /\ pc = "wait" /\ wait_count = 0
    /\ pc' = "done"
    /\ UNCHANGED <<fs, opts, walk, size_file_map, todo, ex, statsq, wait_count,
                   link_count, size_saved, faults, run, fs0, hashed, prev, err,
                   time, chk, stats>>

-----------------------------------------------------------------------------
(* check_and_link and _link_files: an executor.                            *)

\* Line 89: _check_same hashes every file of the bucket.
CheckBucket(w) ==
    /\ ex[w].pc = "check"
    /\ ex' = [ex EXCEPT ![w].pc = "lists",
                        ![w].lists = CheckSame(fs, ex[w].filepaths)]
    /\ hashed' = hashed \cup Range(ex[w].filepaths)
    /\ UNCHANGED <<fs, opts, walk, pc, size_file_map, todo, statsq, wait_count,
                   link_count, size_saved, faults, run, fs0, prev, err,
                   time, chk, stats>>

\* Line 191: open() or read() of the k-th file raises IOError; nothing in
\* check_and_link catches it, so the thread ends without reaching line 95.
HashRaises(w) ==
    /\ ex[w].pc = "check" /\ faults < MaxFaults
    /\ faults' = faults + 1
    /\ \E k \in 1..Len(ex[w].filepaths) :
          /\ hashed' = hashed \cup Range(SubSeq(ex[w].filepaths, 1, k))
          /\ ex' = [ex EXCEPT ![w].pc = "raised",
                              ![w].raised_on = ex[w].filepaths[k]]
    /\ UNCHANGED <<fs, opts, walk, pc, size_file_map, todo, statsq, wait_count,
                   link_count, size_saved, run, fs0, prev, err,
                   time, chk, stats>>

\* Lines 198-210: _link_files is entered with one of the lists; it sorts the
\* list and pops the survivor.
LinkFilesBegin(w) ==
    /\ ex[w].pc = "lists"
    /\ \E files \in ex[w].lists :
          ex' = [ex EXCEPT ![w].pc = "link",
                           ![w].lists = @ \ {files},
                           ![w].given = files,
                           ![w].base_file = Survivor(files),
                           ![w].base_size = getsize(fs, Survivor(files)),
                           ![w].files = Replaced(files),
                           ![w].i = 1,
                           ![w].link_count = 0,
                           ![w].size_saved = 0]
    /\ UNCHANGED <<fs, opts, walk, pc, size_file_map, todo, statsq, wait_count,
                   link_count, size_saved, faults, run, fs0, hashed, prev, err,
                   time, chk, stats>>

\* A slip in the counters: every member the loop visits is counted.
AfterMember_CountsEvery(e, n, entry) ==
    LET lc   == e.link_count + 1
        ss   == e.size_saved + e.base_size
        last == e.i = Len(e.files)
    IN  [e EXCEPT !.i = @ + 1,
                  !.link_count = lc,
                  !.size_saved = ss,
                  !.did = Append(@, entry),
                  !.pc = IF last THEN "lists" ELSE "link",
                  !.links = IF last THEN @ + lc ELSE @,
                  !.saved = IF last THEN @ + ss ELSE @]

\* After the last member _link_files returns (line 272) and the caller adds
\* its counts (lines 92-93, 161).
AfterMember(e, n, entry) ==
    LET lc   == e.link_count + n
        ss   == e.size_saved + n * e.base_size
        last == e.i = Len(e.files)
    IN  [e EXCEPT !.i = @ + 1,
                  !.link_count = lc,
                  !.size_saved = ss,
                  !.did = Append(@, entry),
                  !.pc = IF last THEN "lists" ELSE "link",
                  !.links = IF last THEN @ + lc ELSE @,
                  !.saved = IF last THEN @ + ss ELSE @]

\* Lines 213-270: the loop body for the next member f.  os.path.samefile
\* (line 214) raises OSError when f or the survivor cannot be stat'ed;
\* nothing catches it, and it ends the thread (in update mode, the program).
LinkMember(w) ==
    /\ ex[w].pc = "link"
    /\ LET e == ex[w]
           f == e.files[e.i]
       IN  IF samefileRaises(fs, e.base_file, f)
           THEN /\ ex' = [ex EXCEPT ![w].pc = "raised"]
                /\ pc' = IF w = Main THEN "raised" ELSE pc
                /\ UNCHANGED <<fs, faults>>
           ELSE \E env \in Envs :
                LET r == LinkOne(fs, opts, e.base_file, f, env)
                    failed == r # LinkOne(fs, opts, e.base_file, f, AllOk)
                    entry == [f |-> f, base_file |-> e.base_file, how |-> r.how,
                              src |-> r.src, n |-> r.n, calls |-> r.calls]
                IN  /\ failed => faults < MaxFaults
                    /\ faults' = IF failed THEN faults + 1 ELSE faults
                    /\ fs' = r.fs
                    /\ ex' = [ex EXCEPT ![w] = AfterMember(e, r.n, entry)]
                    /\ pc' = pc
    /\ UNCHANGED <<opts, walk, size_file_map, todo, statsq, wait_count,
                   link_count, size_saved, run, fs0, hashed, prev, err,
                   time, chk, stats>>

\* Line 95: statsq.put((links, saved)), the last statement of the thread.
Report(w) ==
    /\ w \in Workers
    /\ ex[w].pc = "lists" /\ ex[w].lists = {}
    /\ statsq' = Append(statsq, <<ex[w].links, ex[w].saved>>)
    /\ ex' = [ex EXCEPT ![w].pc = "done"]
    /\ UNCHANGED <<fs, opts, walk, pc, size_file_map, todo, wait_count,
                   link_count, size_saved, faults, run, fs0, hashed, prev, err,
                   time, chk, stats>>

-----------------------------------------------------------------------------
(* link_same_update: the main thread in update mode.                       *)

\* A slip in the argument checks: the test for an empty update file left out.
UpdateError_NoEmptyCheck(f, o) ==
    IF o.update_file = <<>> THEN NotSpecified
    ELSE IF ~isdir(o.root_dir) THEN NotADirectory
    ELSE IF ~isfile(f, o.update_file) THEN NotAFile
    ELSE None

\* Lines 127-136: what link_same_update returns before it hashes anything.
UpdateError(f, o) ==
    IF o.update_file = <<>> THEN NotSpecified
    ELSE IF ~isdir(o.root_dir) THEN NotADirectory
    ELSE IF ~isfile(f, o.update_file) THEN NotAFile
    ELSE IF getsize(f, o.update_file) = 0 THEN IsEmpty
    ELSE None

UpdateCandidates(f, order, o) ==
    SelectSeq(Walked(f, order, o.root_dir),
              LAMBDA p : /\ isfile(f, p) /\ ~islink(f, p)
                         /\ getsize(f, p) = getsize(f, o.update_file)
                         /\ (o.pattern = NoPattern \/ fnmatch(basename(p), o.pattern)))

\* Lines 127-162 up to the call of _link_files: the checks, the hash of the
\* update file, the walk.
UpdateScan ==
    /\ pc = "start" /\ opts.mode = "update"
    /\ IF UpdateError(fs, opts) # None
       THEN /\ pc' = "error"
            /\ err' = UpdateError(fs, opts)
            /\ UNCHANGED <<ex, hashed>>
       ELSE LET same == UpdateSame(fs, walk, opts)
            IN  /\ err' = err
                /\ hashed' = hashed \cup {opts.update_file}
                                    \cup Range(UpdateCandidates(fs, walk, opts))
                /\ IF Len(same) > 1
                   THEN /\ ex' = [ex EXCEPT ![Main] =
                                    [IdleEx EXCEPT !.pc = "lists", !.lists = {same}]]
                        /\ pc' = "linking"
                   ELSE /\ ex' = ex
                        /\ pc' = "summary"
    /\ UNCHANGED <<fs, opts, walk, size_file_map, todo, statsq, wait_count,
                   link_count, size_saved, faults, run, fs0, prev,
                   time, chk, stats>>

\* Lines 137, 153: _hash_file raises IOError on the update file or on the
\* k-th candidate; link_same_update and main do not catch it.
UpdateHashRaises ==
    /\ pc = "start" /\ opts.mode = "update" /\ faults < MaxFaults
    /\ faults' = faults + 1
    /\ UpdateError(fs, opts) = None
    /\ \E k \in 0..Len(UpdateCandidates(fs, walk, opts)) :
          hashed' = hashed \cup {opts.update_file}
                           \cup Range(SubSeq(UpdateCandidates(fs, walk, opts), 1, k))
    /\ pc' = "raised"
    /\ UNCHANGED <<fs, opts, walk, size_file_map, todo, ex, statsq, wait_count,
                   link_count, size_saved, run, fs0, prev, err,
                   time, chk, stats>>

\* Lines 161-162: _link_files has returned its counts.
UpdateLinked ==
    /\ pc = "linking" /\ opts.mode = "update"
    /\ ex[Main].pc = "lists" /\ ex[Main].lists = {}
    /\ link_count' = ex[Main].links
    /\ size_saved' = ex[Main].saved
    /\ pc' = "summary"
    /\ UNCHANGED <<fs, opts, walk, size_file_map, todo, ex, statsq, wait_count,
                   faults, run, fs0, hashed, prev, err,
                   time, chk, stats>>

\* Lines 164-171: the summary; link_same_update returns None and main 0.
UpdateSummary ==
    /\ pc = "summary"
    /\ pc' = "done"
    /\ UNCHANGED <<fs, opts, walk, size_file_map, todo, ex, statsq, wait_count,
                   link_count, size_saved, faults, run, fs0, hashed, prev, err,
                   time, chk, stats>>

-----------------------------------------------------------------------------
(* linkidentical.py: link_same_files, all on the main thread.  It has no   *)
(* dry run (link is always set), -p is a filename prefix, and the loop     *)
(* over the members of a set is the loop of linksame._link_files.          *)

\* str.startswith
startswith(fname, prefix) ==
    Len(prefix) <= Len(fname) /\ SubSeq(fname, 1, Len(prefix)) = prefix

\* linkidentical lines 73-82: size_file_map after the walk.  os.walk of a
\* root that is no directory yields nothing.
IdenticalSizeMap(f, order, root_dir, name_prefix) ==
    LET keep(p) == /\ (name_prefix = NoPattern \/ startswith(basename(p), name_prefix))
                   /\ isfile(f, p) /\ ~islink(f, p)
                   /\ getsize(f, p) > 0
        kept    == SelectSeq(Walked(f, order, root_dir), keep)
        sizes   == {getsize(f, p) : p \in Range(kept)}
    IN  [sz \in sizes |-> SelectSeq(kept, LAMBDA p : getsize(f, p) = sz)]

\* linkidentical lines 87-89: the files hashed, bucket after bucket.
RECURSIVE IdenticalToHash(_, _)
IdenticalToHash(m, sizes) ==
    IF sizes = {} THEN <<>>
    ELSE LET sz == SetMin(sizes)
         IN  (IF Len(m[sz]) > 1 THEN m[sz] ELSE <<>>)
             \o IdenticalToHash(m, sizes \ {sz})

\* linkidentical lines 86-92: hash_file_map after the pruning.
IdenticalSame(f, m) ==
    UNION {CheckSame(f, m[sz]) : sz \in {x \in DOMAIN m : Len(m[x]) > 1}}

\* linkidentical lines 68-95: the walk and the hashing.
IdenticalScan ==
    /\ pc = "start" /\ opts.mode = "identical"
    /\ LET m == IdenticalSizeMap(fs, walk, opts.root_dir, opts.pattern)
       IN  /\ size_file_map' = m
           /\ hashed' = hashed \cup Range(IdenticalToHash(m, DOMAIN m))
           /\ ex' = [ex EXCEPT ![Main] =
                       [IdleEx EXCEPT !.pc = "lists", !.lists = IdenticalSame(fs, m)]]
    /\ pc' = "linking"
    /\ UNCHANGED <<fs, opts, walk, todo, statsq, wait_count, link_count,
                   size_saved, faults, run, fs0, prev, err,
                   time, chk, stats>>

\* linkidentical line 89: hash_file raises IOError on the k-th file; nothing
\* catches it.
IdenticalHashRaises ==
    /\ pc = "start" /\ opts.mode = "identical" /\ faults < MaxFaults
    /\ faults' = faults + 1
    /\ LET m  == IdenticalSizeMap(fs, walk, opts.root_dir, opts.pattern)
           th == IdenticalToHash(m, DOMAIN m)
       IN  \E k \in 1..Len(th) : hashed' = hashed \cup Range(SubSeq(th, 1, k))
    /\ pc' = "raised"
    /\ UNCHANGED <<fs, opts, walk, size_file_map, todo, ex, statsq, wait_count,
                   link_count, size_saved, run, fs0, prev, err,
                   time, chk, stats>>

\* linkidentical lines 164-168: every set is done; the totals are printed and
\* returned.
IdenticalSummary ==
    /\ pc = "linking" /\ opts.mode = "identical"
    /\ ex[Main].pc = "lists" /\ ex[Main].lists = {}
    /\ link_count' = ex[Main].links
    /\ size_saved' = ex[Main].saved
    /\ pc' = "done"
    /\ UNCHANGED <<fs, opts, walk, size_file_map, todo, ex, statsq, wait_count,
                   faults, run, fs0, hashed, prev, err,
                   time, chk, stats>>

-----------------------------------------------------------------------------
(* The program is run again on the tree it left, with the same arguments   *)
(* and -w: a dry run is followed by the real run, a real run is repeated.  *)

NextRun ==
    /\ pc = "done" /\ run < MaxRuns
    /\ run' = run + 1
    /\ prev' = [run |-> run, link |-> opts.link, link_count |-> link_count,
                size_saved |-> size_saved,
                hows |-> UNION {{ex[w].did[i].how : i \in 1..Len(ex[w].did)} :
                                w \in ExIds}]
    /\ opts' = [opts EXCEPT !.link = TRUE]
    /\ pc' = "start"
    /\ size_file_map' = <<>>
    /\ todo' = {}
    /\ ex' = [w \in ExIds |-> IdleEx]
    /\ statsq' = <<>>
    /\ wait_count' = 0
    /\ link_count' = 0
    /\ size_saved' = 0
    /\ faults' = 0
    /\ fs0' = fs
    /\ hashed' = {}
    /\ err' = None
    /\ UNCHANGED <<fs, walk,
                   time, chk, stats>>

Next ==
    \/ Scan
    \/ Dispatch
    \/ Dispatched
    \/ Collect
    \/ Summary
    \/ \E w \in Workers : CheckBucket(w)
    \/ \E w \in Workers : HashRaises(w)
    \/ \E w \in Workers : LinkFilesBegin(w)
    \/ \E w \in Workers : LinkMember(w)
    \/ \E w \in Workers : Report(w)
    \/ NextRun

NextUpdate ==
    \/ UpdateScan
    \/ UpdateHashRaises
    \/ LinkFilesBegin(Main)
    \/ LinkMember(Main)
    \/ UpdateLinked
    \/ UpdateSummary
    \/ NextRun


NextIdentical ==
    \/ IdenticalScan
    \/ IdenticalHashRaises
    \/ LinkFilesBegin(Main)
    \/ LinkMember(Main)
    \/ IdenticalSummary
    \/ NextRun

\* Full-tree mode: link_same_files.
Spec == Init /\ [][Next]_vars

\* Update mode: link_same_update.
SpecUpdate == InitUpdate /\ [][NextUpdate]_vars

\* The three entry points on every kind of argument, over the trees whose
\* files hold "dup" or nothing.
SmallTrees == {t \in Trees : \A p \in TreePaths :
                  lstat(t, p).kind = "file" => lstat(t, p).data \in {"dup", Empty}}

InitEntry ==
    /\ fs \in SmallTrees
    /\ opts \in Options("full", Roots, {<<>>}, Patterns)
               \cup Options("update", Roots, {pA, pDA} \cup BadUpdateFiles, Patterns)
               \cup {o \in Options("identical", Roots, {<<>>}, Prefixes) : o.link}
    /\ InitRest

NextEntry == Next \/ NextUpdate \/ NextIdentical

SpecEntry == InitEntry /\ [][NextEntry]_vars

\* linksame.main lines 321-325, linkidentical.main line 206: the value main
\* returns once the engine has returned; an exception nobody catches ends
\* the interpreter with status 1.
MainReturns ==
    IF opts.mode = "identical" THEN 0
    ELSE IF err # None THEN 1 ELSE 0

Exited     == pc \in {"done", "error", "raised"}
ExitStatus == IF pc = "raised" THEN 1 ELSE MainReturns

-----------------------------------------------------------------------------
(* sysutils/checktcpconn.py: class CheckTcpConn.  Time is counted in clock *)
(* ticks; a timeout and an interval are numbers of ticks.                  *)

\* No linksame engine runs beside the sysutils classes.
linkvars == <<fs, opts, walk, pc, size_file_map, todo, ex, statsq, wait_count,
              link_count, size_saved, faults, run, fs0, hashed, prev, err>>

LinkIdle ==
    /\ fs = [p \in AllPaths |-> NoEnt]
    /\ opts = [mode |-> "none"]
    /\ walk = <<>>
    /\ pc = "idle"
    /\ size_file_map = <<>>
    /\ todo = {}
    /\ ex = [w \in ExIds |-> IdleEx]
    /\ statsq = <<>>
    /\ wait_count = 0
    /\ link_count = 0
    /\ size_saved = 0
    /\ faults = 0
    /\ run = 1
    /\ fs0 = fs
    /\ hashed = {}
    /\ prev = NoPrev
    /\ err = None

\* The most try_connect calls one poll is followed through.
MaxTries == 3

\* The arguments a caller passes: a host name or "", a port as an int or as
\* the string main takes from argv, a timeout and an interval.
Hosts     == {"", "host"}
PortArgs  == {[int |-> 0], [int |-> 80], [int |-> 65535], [int |-> 65536],
              [str |-> <<"8", "0">>], [str |-> <<"0">>]}
Timeouts  == {0 - 1, 0, 1, 3}
Intervals == {0, 1, 2}
\* str(e) of the socket.error a failed connection raises.
Errors    == {"[Errno 111] Connection refused", "timed out"}

\* int() of an int or of a string of decimal digits.
DigitOf(c) == CHOOSE d \in 0..9 :
                 <<"0", "1", "2", "3", "4", "5", "6", "7", "8", "9">>[d + 1] = c

RECURSIVE ParseDec(_)
ParseDec(str) ==
    IF str = <<>> THEN 0
    ELSE 10 * ParseDec(SubSeq(str, 1, Len(str) - 1)) + DigitOf(str[Len(str)])

int(x) == IF "int" \in DOMAIN x THEN x.int ELSE ParseDec(x.str)

\* A Python value handed back to the caller.
PyTuple(t) == [type |-> "tuple", v |-> t]
PyStr(t)   == [type |-> "str", v |-> t]
PyNone     == [type |-> "NoneType"]

\* The instance before __init__ ran, and the caller's frame.
NewChk == [pc |-> "new", conn_info |-> <<>>, last_error |-> None,
           host |-> "", port |-> 0,
           call |-> "", timeout |-> 0, interval |-> 0, expire_time |-> 0,
           remaining |-> 0, tries |-> <<>>, polled |-> FALSE,
           address |-> PyNone]

\* __init__ (lines 21-35).
Construct ==
    /\ chk.pc = "new"
    /\ \E host \in Hosts, port \in PortArgs :
          chk' = IF host = "" \/ int(port) < 1 \/ int(port) > 65535
                 THEN [chk EXCEPT !.pc = "raised", !.call = "__init__"]
                 ELSE [chk EXCEPT !.pc = "ready",
                                  !.call = "__init__",
                                  !.host = host,
                                  !.port = int(port),
                                  !.conn_info = <<host, int(port)>>,
                                  !.last_error = None]
    /\ UNCHANGED <<linkvars, time, stats>>

\* A slip in try_connect: the error text is not kept.
try_connect_DropsError(c, ok, e) == [c EXCEPT !.last_error = None]

\* try_connect (lines 37-62) on an instance, the connection succeeding or
\* failing with socket.error e.
try_connect(c, ok, e) == [c EXCEPT !.last_error = IF ok THEN None ELSE e]

\* One call of try_connect(timeout) from outside poll (main, lines 136-139).
TryConnect ==
    /\ chk.pc = "ready"
    /\ \E ok \in BOOLEAN, e \in Errors, timeout \in {t \in Timeouts : t > 0} :
       \E d \in 0..timeout :
          /\ chk' = [try_connect(chk, ok, e) EXCEPT
                       !.pc = "returned", !.call = "try_connect",
                       !.timeout = timeout,
                       !.tries = <<[timeout |-> timeout, at |-> time,
                                    end |-> time + d, ok |-> ok, error |-> e]>>]
          /\ time' = time + d
    /\ UNCHANGED <<linkvars, stats>>

\* poll lines 79-83: the check of the timeout and the deadline.
PollBegin ==
    /\ chk.pc = "ready"
    /\ \E timeout \in Timeouts, interval \in Intervals :
          chk' = IF timeout <= 0
                 THEN [chk EXCEPT !.pc = "raised", !.call = "poll",
                                  !.timeout = timeout, !.interval = interval]
                 ELSE [chk EXCEPT !.pc = "while", !.call = "poll",
                                  !.timeout = timeout, !.interval = interval,
                                  !.expire_time = time + timeout,
                                  !.remaining = timeout]
    /\ UNCHANGED <<linkvars, time, stats>>

\* poll lines 84-88: remaining > 0, so try_connect(remaining) is called; it
\* takes d ticks (resolving and trying each address can take it past
\* the timeout by a tick), then True is returned, or the clock is read and
\* the loop left when the deadline has passed.
PollTry ==
    /\ chk.pc = "while" /\ chk.remaining > 0
    /\ Len(chk.tries) < MaxTries
    /\ \E ok \in BOOLEAN, e \in Errors, d \in 0..(chk.remaining + 1) :
          LET c == [try_connect(chk, ok, e) EXCEPT
                      !.tries = Append(@, [timeout |-> chk.remaining,
                                           at |-> time, end |-> time + d,
                                           ok |-> ok, error |-> e])]
          IN  /\ time' = time + d
              /\ chk' = IF ok
                        THEN [c EXCEPT !.pc = "returned", !.polled = TRUE]
                        ELSE IF time' >= chk.expire_time
                        THEN [c EXCEPT !.pc = "returned", !.polled = FALSE]
                        ELSE [c EXCEPT !.pc = "sleep"]
    /\ UNCHANGED <<linkvars, stats>>

\* poll lines 89-90: time.sleep(interval), which may oversleep by a tick, and
\* the new remaining time.
PollSleep ==
    /\ chk.pc = "sleep"
    /\ \E over \in 0..1 :
          /\ time' = time + chk.interval + over
          /\ chk' = [chk EXCEPT !.pc = "while",
                                !.remaining = chk.expire_time - time']
    /\ UNCHANGED <<linkvars, stats>>

\* poll lines 83, 91: the loop ends because nothing remains; False.
PollExpired ==
    /\ chk.pc = "while" /\ chk.remaining <= 0
    /\ chk' = [chk EXCEPT !.pc = "returned", !.polled = FALSE]
    /\ UNCHANGED <<linkvars, time, stats>>

\* address (lines 98-100), called on a constructed instance.
Address ==
    /\ chk.pc \in {"ready", "returned"}
    /\ chk.address = PyNone
    /\ chk' = [chk EXCEPT !.address = PyStr(chk.conn_info[1])]
    /\ UNCHANGED <<linkvars, time, stats>>

InitPoll ==
    /\ LinkIdle
    /\ time = 0
    /\ chk = NewChk
    /\ stats = NotConstructed

NextPoll ==
    \/ Construct
    \/ TryConnect
    \/ PollBegin
    \/ PollTry
    \/ PollSleep
    \/ PollExpired
    \/ Address

\* A caller of CheckTcpConn.
SpecPoll == InitPoll /\ [][NextPoll]_vars

-----------------------------------------------------------------------------
(* sysutils/systemstats.py: the cache of class SystemStats.                *)

\* Seconds that stats are good before needing to be refreshed (line 17).
STATS_TTL == 60

\* time.time() is a float: the clock is counted in ticks, this many a second.
TicksPerSecond == 2

\* The most calls one instance is followed through.
MaxCalls == 4

\* int(time.time())
int_time(t) == t \div TicksPerSecond

\* The clock when the instance is made, and how long the caller waits
\* before a call: nothing, a tick, a tick less than STATS_TTL, STATS_TTL.
StartTimes == {0, 1, 1000 * TicksPerSecond, 1000 * TicksPerSecond + 1}
Waits      == {0, 1, STATS_TTL * TicksPerSecond - 1, STATS_TTL * TicksPerSecond}

\* The dict a fetch at clock t builds from the output of df or of
\* /proc/meminfo.
Fetched(what, t) == [type |-> "dict", of |-> what, fetched_at |-> t]

\* The instance after __init__ (lines 27-36), and the caller's frame: the
\* last call, the clock at it, what the cache held before it, whether it
\* fetched and what it returned.
NewStats == [pc |-> "ready",
             last_disk |-> 0, disk_stats |-> PyNone,
             last_mem |-> 0, mem_stats |-> PyNone,
             calls |-> 0, call |-> "", at |-> 0, had |-> PyNone,
             fetched |-> FALSE, ret |-> PyNone]

\* disk_usage (lines 112-148), called after the caller waited d ticks.
disk_usage ==
    /\ stats.pc = "ready" /\ stats.calls < MaxCalls
    /\ \E d \in Waits :
          LET t   == time + d
              t_i == int_time(t)
              ds  == Fetched("disk", t)
              c   == [stats EXCEPT !.calls = @ + 1, !.call = "disk_usage",
                                   !.at = t, !.had = stats.disk_stats]
          IN  /\ time' = t
              /\ stats' = IF t_i - stats.last_disk < STATS_TTL
                          THEN [c EXCEPT !.fetched = FALSE,
                                         !.ret = stats.disk_stats]
                          ELSE [c EXCEPT !.fetched = TRUE,
                                         !.last_disk = t_i,
                                         !.disk_stats = ds,
                                         !.ret = ds]
    /\ UNCHANGED <<linkvars, chk>>

\* memory_usage (lines 150-173), called after the caller waited d ticks.
memory_usage ==
    /\ stats.pc = "ready" /\ stats.calls < MaxCalls
    /\ \E d \in Waits :
          LET t         == time + d
              t_i       == int_time(t)
              mem_stats == Fetched("memory", t)
              c   == [stats EXCEPT !.calls = @ + 1, !.call = "memory_usage",
                                   !.at = t, !.had = stats.mem_stats]
          IN  /\ time' = t
              /\ stats' = IF t_i - stats.last_mem < STATS_TTL
                          THEN [c EXCEPT !.fetched = FALSE,
                                         !.ret = stats.mem_stats]
                          ELSE [c EXCEPT !.fetched = TRUE,
                                         !.last_mem = t_i,
                                         !.mem_stats = mem_stats,
                                         !.ret = mem_stats]
    /\ UNCHANGED <<linkvars, chk>>

InitStats ==
    /\ LinkIdle
    /\ time \in StartTimes
    /\ chk = NotConstructed
    /\ stats = NewStats

NextStats == disk_usage \/ memory_usage

\* A caller of SystemStats.
SpecStats == InitStats /\ [][NextStats]_vars

-----------------------------------------------------------------------------
(* What the claims speak of.                                               *)

\* What the executors did with the members so far in this invocation.
Entries == UNION {{ex[w].did[i] : i \in 1..Len(ex[w].did)} : w \in ExIds}

\* A file the scanner can pick up: regular, not a symlink, not empty.
Candidate(f, p) == lstat(f, p).kind = "file" /\ lstat(f, p).data # Empty

\* No thread can take a step and the queue is empty: the main thread sits
\* in statsq.get() or is about to print the summary.
Settled ==
    /\ pc = "wait" /\ statsq = <<>>
    /\ \A w \in Workers : ex[w].pc \in {"idle", "done", "raised"}

\* The sum of the values of a function with a finite domain.
RECURSIVE SumOf(_)
SumOf(val) ==
    IF DOMAIN val = {} THEN 0
    ELSE LET x == CHOOSE y \in DOMAIN val : TRUE
         IN  val[x] + SumOf([y \in DOMAIN val \ {x} |-> val[y]])

\* The text a symlink at f must hold to name base_file from f's directory.
ExpectedSource(f, base_file) ==
    join(relpath(dirname(base_file), dirname(f)), basename(base_file))

\* Where a path is after the root /r was renamed to /m with all below it.
Moved(p) == IF p # <<>> /\ p[1] = nR THEN <<(<<"m">>)>> \o Tail(p) ELSE p

-----------------------------------------------------------------------------
(* The claims.                                                             *)

\* C1: after a real run over the whole tree, two files that held the same
\* non-empty bytes are one physical copy: one is the file, the other a hard
\* or symbolic link that resolves to the same content.  Stated for the runs
\* where the claim has no excuse: no pattern, every system call succeeded.
C1_IdenticalFilesBecomeOneCopy ==
    (pc = "done" /\ opts.mode = "full" /\ opts.link
        /\ opts.pattern = NoPattern /\ faults = 0)
    => \A a, b \in TreePaths :
          (a # b /\ Candidate(fs0, a) /\ Candidate(fs0, b)
                 /\ fs0[a].data = fs0[b].data)
          => /\ isfile(fs, a) /\ isfile(fs, b)
             /\ stat(fs, a).data = fs0[a].data
             /\ stat(fs, b).data = fs0[b].data
             /\ samefile(fs, a, b)

\* C2: a relative symlink created at f holds the relative path from f's
\* directory to the survivor's directory joined with the survivor's name, so
\* it resolves to the survivor, before and after the root is moved.
C2_RelativeSymlinkNamesSurvivor ==
    \A e \in Entries :
        (e.how = "symlink" /\ ~opts.absolute)
        => /\ e.src = ExpectedSource(e.f, e.base_file)
           /\ Resolve(dirname(e.f), e.src) = e.base_file
           /\ Resolve(dirname(Moved(e.f)), e.src) = Moved(e.base_file)

C4_RemovedMemberExistsAgain ==
    opts.mode = "full"
    => \A e \in Entries :
          e.how \in {"hardlink", "symlink", "restored"}
          => LET now == lstat(fs, e.f)
             IN  \/ /\ e.how = "hardlink" /\ e.n = 1
                    /\ now.kind = "file"
                    /\ now.ino = lstat(fs, e.base_file).ino
                 \/ /\ e.how = "symlink" /\ e.n = 1
                    /\ now.kind = "link"
                    /\ Resolve(dirname(e.f), now.target) = e.base_file
                 \/ /\ e.how = "restored" /\ e.n = 0
                    /\ now.kind = "file"
                    /\ now.data = stat(fs, e.base_file).data

\* C5 as claimed: the second of two real runs with the same options does
\* nothing to any member and counts no link.
C5_SecondRunDoesNothing ==
    (run = 2 /\ prev.link)
    => /\ \A e \in Entries : e.how = "same"
       /\ link_count = 0

\* C5 as amended: the second of two real runs with the same options does
\* nothing to any member and counts no link, when the first run left no
\* member in place after a failed unlink and restored none by copy.
C5_SecondRunDoesNothingAfterCleanRun ==
    (run = 2 /\ prev.link /\ prev.hows \cap {"unlink_failed", "restored"} = {})
    => /\ \A e \in Entries : e.how = "same"
       /\ link_count = 0
       /\ \A w \in ExIds : ex[w].links = 0

C5_Witness ==
    /\ run = 2 /\ pc = "done" /\ prev.link
    /\ prev.hows = {"hardlink"} /\ prev.link_count = 2
    /\ \E e \in Entries : e.how = "same"

\* C6: the totals of a dry run equal the totals of the real run that
\* follows it on the same tree with the same options (every system call of
\* the real run succeeding).
C6_DryRunCountsWhatRealRunDoes ==
    (run = 2 /\ pc = "done" /\ ~prev.link /\ faults = 0)
    => /\ link_count = prev.link_count
       /\ size_saved = prev.size_saved

\* C7: a dry run changes nothing: no unlink, link, symlink or copy, and the
\* filesystem is the one the run started with.
C7_DryRunLeavesTreeAlone ==
    ~opts.link
    => /\ fs = fs0
       /\ \A e \in Entries : e.how \in {"same", "dry"}

C7_Witness ==
    /\ ~opts.link /\ pc = "done" /\ link_count = 2
    /\ \E e \in Entries : e.how = "dry"

\* C8: when the hash of one file of a bucket fails, the other files of the
\* bucket are still matched: each of them that has a twin among them is
\* handed to the link executor.
C8_HashFailureDropsOnlyThatFile ==
    Settled
    => \A w \in Workers :
          ex[w].raised_on # <<>>
          => LET others == Range(ex[w].filepaths) \ {ex[w].raised_on}
             IN  \A p, q \in others :
                    (p # q /\ hash_file(fs0, p) = hash_file(fs0, q))
                    => \E e \in Entries : p \in {e.f, e.base_file}

\* C9: the wait loop is never left waiting for a result no thread will
\* send: once no worker can step and the queue is empty, every dispatched
\* worker has reported and the main thread goes on to the summary.
C9_CoordinatorNeverBlocksForever ==
    Settled
    => /\ wait_count = 0
       /\ \A w \in Workers : ex[w].pc # "raised"

\* C10: when the summary is printed every dispatched worker has done all
\* its links and reported, and the totals are the sums over the buckets.
C10_SummaryAfterAllWorkers ==
    (pc = "done" /\ opts.mode = "full")
    => /\ \A sz \in DOMAIN size_file_map :
             Len(size_file_map[sz]) >= 2 => ex[sz].pc = "done"
       /\ \A w \in Workers : ex[w].pc \in {"idle", "done"}
       /\ link_count = SumOf([w \in Workers |-> ex[w].links])
       /\ size_saved = SumOf([w \in Workers |-> ex[w].saved])
       /\ link_count = Cardinality({e \in Entries : e.n = 1})

C10_Witness ==
    /\ pc = "done" /\ link_count = 2
    /\ \A w \in Workers : ex[w].pc = "done" /\ ex[w].links = 1

\* What executor w has added to its counters so far.
Counted(w) ==
    ex[w].links + (IF ex[w].pc \in {"link", "raised"} THEN ex[w].link_count ELSE 0)

\* C11: a member whose removal failed is left as it was, nothing is linked
\* in its place, it is not counted, and the executor goes on with the other
\* members of the set.
C11_FailedUnlinkSkipsMember ==
    \A w \in ExIds :
        LET did == ex[w].did
        IN  (\E i \in 1..Len(did) : did[i].how = "unlink_failed")
            => /\ \A i \in 1..Len(did) :
                     did[i].how = "unlink_failed"
                     => /\ did[i].n = 0
                        /\ lstat(fs, did[i].f) = lstat(fs0, did[i].f)
                        /\ lstat(fs, did[i].f).kind = "file"
               /\ Counted(w) = Cardinality({i \in 1..Len(did) :
                                   did[i].how \in {"hardlink", "symlink", "dry"}})
               /\ ex[w].pc # "raised"
               /\ ex[w].pc \in {"lists", "done"}
                  => \A m \in Range(ex[w].files) :
                        \E i \in 1..Len(did) : did[i].f = m

C11_Witness ==
    \E w \in Workers :
        /\ ex[w].pc = "done" /\ Len(ex[w].did) = 2 /\ ex[w].links = 1
        /\ ex[w].did[1].how = "unlink_failed"
        /\ ex[w].did[2].how = "hardlink"

\* C12: a member that is the survivor's inode when the run starts is
\* skipped, in a real run and in a dry run: its directory entry stays as it
\* was and it is not counted.
C12_SameInodeMemberSkipped ==
    /\ \A e \in Entries :
          samefile(fs0, e.base_file, e.f)
          => /\ e.how = "same" /\ e.n = 0
             /\ lstat(fs, e.f) = lstat(fs0, e.f)
    /\ \A w \in ExIds :
          Counted(w) = Cardinality({i \in 1..Len(ex[w].did) : ex[w].did[i].how # "same"
                                       /\ ex[w].did[i].n = 1})

C12_Witness ==
    /\ ~opts.link /\ pc = "done" /\ link_count = 1
    /\ \E e \in Entries : e.how = "same" /\ e.f # e.base_file
    /\ \E e \in Entries : e.how = "dry"

\* A path that holds a link the run made: a symlink, or a second name of the
\* inode of a file the run left alone.
Linked(p) ==
    /\ lstat(fs, p) # lstat(fs0, p)
    /\ \/ lstat(fs, p).kind = "link"
       \/ /\ lstat(fs, p).kind = "file"
          /\ \E q \in AllPaths \ {p} :
                /\ lstat(fs0, q).kind = "file" /\ lstat(fs, q) = lstat(fs0, q)
                /\ lstat(fs, q).ino = lstat(fs, p).ino

\* C13: at the end of a real run the link count is the number of members
\* for which a hardlink or symlink was created, and the bytes saved are the
\* sum of their survivors' sizes; skipped, unremovable and restored members
\* add nothing.
C13_TotalsCountCreatedLinks ==
    (pc = "done" /\ opts.link)
    => LET made == {e \in Entries : e.how \in {"hardlink", "symlink"}}
       IN  /\ link_count = Cardinality(made)
           /\ link_count = Cardinality({p \in AllPaths : Linked(p)})
           /\ size_saved = SumOf([e \in made |-> getsize(fs, e.base_file)])
           /\ \A e \in Entries \ made : e.n = 0

C13_Witness ==
    /\ pc = "done" /\ opts.link /\ link_count = 1 /\ size_saved = 3
    /\ \E e \in Entries : e.how = "restored"
    /\ \E e \in Entries : e.how = "symlink"

\* C14: a file whose size no other scanned file has is never hashed, and no
\* worker is started for its bucket.
C14_UniqueSizeNeverHashed ==
    /\ \A p \in hashed :
          /\ ScanKeeps(fs0, opts.pattern, p)
          /\ \E q \in TreePaths \ {p} :
                /\ ScanKeeps(fs0, opts.pattern, q)
                /\ getsize(fs0, q) = getsize(fs0, p)
    /\ \A sz \in DOMAIN size_file_map :
          Len(size_file_map[sz]) = 1 => ex[sz] = IdleEx

C14_Witness ==
    /\ pc = "done" /\ hashed # {}
    /\ \E sz \in DOMAIN size_file_map :
          /\ Len(size_file_map[sz]) = 1
          /\ size_file_map[sz][1] \notin hashed

\* C15: a zero-length file is never put in a size bucket, never hashed,
\* never a member or the survivor of a set, and stays as it was, however
\* many zero-length files there are.
C15_EmptyFilesExcluded ==
    \A p \in AllPaths :
        (lstat(fs0, p).kind = "file" /\ lstat(fs0, p).data = Empty)
        => /\ \A sz \in DOMAIN size_file_map : p \notin Range(size_file_map[sz])
           /\ p \notin hashed
           /\ \A w \in ExIds : /\ p \notin Range(ex[w].filepaths)
                                /\ p \notin Range(ex[w].given)
           /\ \A e \in Entries : e.f # p /\ e.base_file # p
           /\ lstat(fs, p) = lstat(fs0, p)

C15_Witness ==
    /\ pc = "done" /\ opts.link /\ link_count = 1
    /\ lstat(fs0, pBB).kind = "file" /\ lstat(fs0, pBB).data = Empty
    /\ lstat(fs0, pEB).kind = "file" /\ lstat(fs0, pEB).data = Empty

\* C16: a path that is a symlink when the run starts is never hashed, never
\* a member or the survivor of a set, and is never removed or linked again,
\* in full-tree mode and in update mode, the update file included.
C16_SymlinkNeverMember ==
    \A p \in AllPaths :
        lstat(fs0, p).kind = "link"
        => /\ p \notin hashed
           /\ \A w \in ExIds : p \notin Range(ex[w].given)
           /\ \A e \in Entries : e.f # p /\ e.base_file # p
           /\ lstat(fs, p) = lstat(fs0, p)

\* C17: with a root that is no directory every entry point fails with the
\* not-a-directory error (or, with no update file either, with that error)
\* before it scans, hashes or changes anything, and the exit status is not 0.
C17_BadRootIsAnError ==
    (~isdir(opts.root_dir) /\ pc # "start")
    => /\ pc = "error"
       /\ \/ err = NotADirectory
          \/ opts.mode = "update" /\ opts.update_file = <<>> /\ err = NotSpecified
       /\ ExitStatus = 1
       /\ size_file_map = <<>> /\ hashed = {} /\ fs = fs0
       /\ \A w \in ExIds : ex[w] = IdleEx

Matches(u) ==
    {p \in TreePaths \ {u} :
        /\ lstat(fs0, p).kind = "file"
        /\ Len(lstat(fs0, p).data) = Len(stat(fs0, u).data)
        /\ (opts.pattern = NoPattern \/ fnmatch(basename(p), opts.pattern))
        /\ lstat(fs0, p).data = stat(fs0, u).data}

\* C19: in update mode the one set is the update file plus exactly the
\* other files of the tree that match it, each member once, and the
\* survivor is chosen among all of them by (filename length, path length).
C19_UpdateSetIsTargetPlusMatches ==
    (opts.mode = "update" /\ ex[Main].given # <<>>)
    => LET u     == opts.update_file
           given == ex[Main].given
       IN  /\ Range(given) = {u} \cup Matches(u)
           /\ Len(given) = 1 + Cardinality(Matches(u))
           /\ ex[Main].base_file \in Range(given)
           /\ \A m \in Range(given) :
                 ~KeyLess(fkey(ex[Main].base_file), fkey(m))

\* The run ended because _hash_file raised on the main thread.
HashRaisedInMain == pc = "raised" /\ ex[Main].pc # "raised"

\* C20: with a valid root and a valid update file the exit status is 0,
\* whatever unlink, link or symlink calls failed for single members.
C20_LinkFailuresKeepExitStatus ==
    (/\ Exited /\ ~HashRaisedInMain
     /\ opts.root_dir \in Dirs
     /\ opts.mode = "update" => /\ opts.update_file # <<>>
                                /\ stat(fs0, opts.update_file).kind = "file"
                                /\ stat(fs0, opts.update_file).data # Empty)
    => ExitStatus = 0

\* C21: in symlink-only mode os.link is never called; otherwise os.link is
\* the call that follows a successful os.unlink, and os.symlink is called
\* only after os.link failed; a member that was hardlinked gets no symlink,
\* and a linked member is counted once.
C21_HardlinkFirstThenSymlink ==
    /\ \A e \in Entries :
          LET calls == Range(e.calls)
          IN  /\ opts.symlink => calls \cap {"link", "link failed"} = {}
              /\ (~opts.symlink /\ "unlink" \in calls)
                 => e.calls[1] = "unlink" /\ e.calls[2] \in {"link", "link failed"}
              /\ (~opts.symlink /\ calls \cap {"symlink", "symlink failed"} # {})
                 => e.calls[2] = "link failed" /\ Len(e.calls) > 2
                    /\ e.calls[3] \in {"symlink", "symlink failed"}
              /\ "link" \in calls
                 => /\ calls \cap {"symlink", "symlink failed", "copy2"} = {}
                    /\ e.n = 1
              /\ calls \cap {"link", "symlink"} # {} => e.n = 1
    /\ \A w \in ExIds :
          opts.link
          => Counted(w) = Cardinality({i \in 1..Len(ex[w].did) :
                             Range(ex[w].did[i].calls) \cap {"link", "symlink"} # {}})
    /\ \A p \in TreePaths :
          (\E e \in Entries : e.f = p /\ "link" \in Range(e.calls))
          => lstat(fs, p).kind = "file"

C21_Witness ==
    /\ pc = "done" /\ ~opts.symlink /\ link_count = 2
    /\ \E e \in Entries : e.calls = <<"unlink", "link failed", "symlink">>
    /\ \E e \in Entries : e.calls = <<"unlink", "link">>

\* The paths a worker thread holds in its own data: the bucket it was started
\* with, the lists _check_same returned to it, the list _link_files is
\* working on, and the members and survivors it has handled.
OwnPaths(w) ==
    Range(ex[w].filepaths) \cup UNION {Range(l) : l \in ex[w].lists}
        \cup Range(ex[w].given) \cup Range(ex[w].files)
        \cup (IF ex[w].base_file = <<>> THEN {} ELSE {ex[w].base_file})
        \cup {e.f : e \in Range(ex[w].did)}
        \cup {e.base_file : e \in Range(ex[w].did)}

\* C22: two distinct worker threads hold disjoint paths: no path is hashed,
\* unlinked or linked by both, and a path whose directory entry changed in
\* this run is in the data of exactly one worker.
C22_WorkersOwnDisjointPaths ==
    opts.mode = "full"
    => /\ \A w1, w2 \in Workers : w1 # w2 => OwnPaths(w1) \cap OwnPaths(w2) = {}
       /\ hashed \subseteq UNION {Range(ex[w].filepaths) : w \in Workers}
       /\ \A p \in AllPaths :
             fs[p] # fs0[p]
             => Cardinality({w \in Workers : \E e \in Range(ex[w].did) :
                                               e.f = p}) = 1

C22_Witness ==
    /\ opts.link
    /\ \A w \in Workers : ex[w].did # <<>>
    /\ Cardinality({p \in AllPaths : fs[p] # fs0[p]}) = 2

\* C23: address() returns the tuple (host, port) the instance was constructed
\* with, the one handed to socket.create_connection.
C23_AddressIsHostAndPort ==
    chk.address # PyNone
    => /\ chk.address.type = "tuple"
       /\ chk.address.v = chk.conn_info
       /\ chk.address.v = <<chk.host, chk.port>>

\* C24: poll with timeout > 0 calls try_connect only with a timeout above
\* zero, makes no call after one that succeeded and returns True right after
\* it, waits at least the interval between two calls, returns False only
\* when the deadline has been reached, and last_error() is then the error of
\* the last failed call.
C24_PollUntilConnectedOrDeadline ==
    chk.call = "poll"
    => LET t == chk.tries
           n == Len(t)
       IN  /\ \A i \in 1..n : t[i].timeout > 0
           /\ \A i \in 1..(n - 1) :
                 ~t[i].ok /\ t[i + 1].at >= t[i].end + chk.interval
           /\ (n > 0 /\ t[n].ok)
              => chk.pc = "returned" /\ chk.polled /\ time = t[n].end
           /\ (chk.pc = "returned" /\ chk.polled) => n > 0 /\ t[n].ok
           /\ (chk.pc = "returned" /\ ~chk.polled)
              => /\ time >= chk.expire_time
                 /\ n > 0 /\ ~t[n].ok
                 /\ chk.last_error = t[n].error
           /\ chk.pc = "raised" => chk.timeout <= 0 /\ n = 0
           /\ chk.pc # "raised" => chk.timeout > 0
           /\ n > 0 => chk.expire_time = t[1].at + chk.timeout

C24_Witness ==
    /\ chk.call = "poll" /\ chk.pc = "returned" /\ ~chk.polled
    /\ Len(chk.tries) = 3
    /\ chk.tries[1].error # chk.tries[3].error
    /\ chk.interval > 0

\* _link_files has just been entered by executor w with the list ex[w].given.
HandedOver(w) == ex[w].pc = "link" /\ ex[w].i = 1

\* C25: a list handed to _link_files names at least two files, and all its
\* members have one size and one digest.
C25_HandedSetIsLinkable ==
    \A w \in ExIds :
        HandedOver(w)
        => /\ Cardinality(Range(ex[w].given)) >= 2
           /\ \A p, q \in Range(ex[w].given) :
                 /\ exists(fs, p)
                 /\ getsize(fs, p) = getsize(fs, q)
                 /\ hash_file(fs, p) = hash_file(fs, q)

\* C26: a call of disk_usage or memory_usage fetches exactly when nothing was
\* fetched yet or STATS_TTL seconds or more have passed since the last
\* fetch, and what it returns was fetched less than STATS_TTL seconds ago.
C26_RefetchWhenStale ==
    LET ttl == STATS_TTL * TicksPerSecond
    IN  stats.call # ""
        => /\ stats.fetched <=> (stats.had = PyNone
                                 \/ stats.at - stats.had.fetched_at >= ttl)
           /\ stats.ret # PyNone
           /\ stats.at - stats.ret.fetched_at < ttl
           /\ ~stats.fetched => stats.ret = stats.had

\* The survivors chosen so far in this invocation.
Survivors ==
    {e.base_file : e \in Entries}
        \cup {ex[w].base_file : w \in {x \in ExIds : ex[x].base_file # <<>>}}

\* C27: in a real run the path of a survivor names, in every state, the
\* directory entry it named when the run began: the same inode with the
\* same bytes.
C27_SurvivorUntouched ==
    opts.link => \A b \in Survivors : /\ lstat(fs, b) = lstat(fs0, b)
                                      /\ stat(fs, b) = stat(fs0, b)

C27_Witness ==
    /\ opts.link /\ opts.mode = "update"
    /\ opts.update_file \in TreePaths
    /\ \E e \in Entries : /\ e.base_file = opts.update_file
                           /\ e.how \in {"hardlink", "symlink"}
    /\ \E e \in Entries : e.f = e.base_file

\* The name of p passes the filter of this invocation: the fnmatch pattern
\* of linksame, the name prefix of linkidentical.
PassesFilter(p) ==
    \/ opts.pattern = NoPattern
    \/ IF opts.mode = "identical" THEN startswith(basename(p), opts.pattern)
       ELSE fnmatch(basename(p), opts.pattern)

\* C28: with a filter given, a file whose name does not pass it is not hashed
\* in the scan, is no survivor, is no member handled by _link_files, and
\* its directory entry stays what it was.
C28_FilteredOutNeverTouched ==
    \A p \in AllPaths :
        ~PassesFilter(p)
        => /\ p \in hashed => p = opts.update_file
           /\ p \notin Survivors
           /\ \A e \in Entries : e.f # p
           /\ \A w \in ExIds : p \notin Range(ex[w].given)
           /\ lstat(fs, p) = lstat(fs0, p)

\* The distinct files this invocation replaced by a link or, in a dry run,
\* would replace.
ReplacedFiles == {e.f : e \in {x \in Entries : x.n = 1}}

\* C29: in update mode no file is twice in the list handed to _link_files,
\* the link count is at most the number of distinct files replaced, and the
\* bytes saved count each of them once.
C29_UpdateCountsEachFileOnce ==
    opts.mode = "update"
    => /\ Len(ex[Main].given) = Cardinality(Range(ex[Main].given))
       /\ Counted(Main) <= Cardinality(ReplacedFiles)
       /\ pc = "done"
          => /\ link_count <= Cardinality(ReplacedFiles)
             /\ size_saved <= Cardinality(ReplacedFiles) * ex[Main].base_size

\* The lists that hold the members of `files` in another order of
\* enumeration.
Reorderings(files) ==
    {[i \in 1..Len(files) |-> files[pi[i]]] : pi \in Permutations(1..Len(files))}

\* The members of `files` whose key (filename length, path length) no
\* member exceeds.
TopMembers(files) ==
    {m \in Range(files) : \A x \in Range(files) : ~KeyLess(fkey(m), fkey(x))}

\* C30: the survivor is a function of the set of member paths: had the
\* scanner enumerated the same members in any other order, _link_files
\* would have chosen the survivor it chose.
C30_SurvivorIndependentOfScanOrder ==
    \A w \in ExIds :
        ex[w].given # <<>>
        => \A other \in Reorderings(ex[w].given) :
              Survivor(other) = ex[w].base_file

====
